---------------------------- MODULE Spec2Model ----------------------------
(***************************************************************************)
(* Model of the control loop of the Autonomous Self-Healing Integration    *)
(* Hub (src/master_agent.py): MasterAgent.monitor_system and the calls it  *)
(* makes (_get_current_health, _initiate_healing_process,                  *)
(* _identify_weaknesses, IntegrationModuleGenerator.generate_module,       *)
(* IntegrationHub.log_event / apply_updates), together with the external   *)
(* writers of MasterAgent.performance_metrics.                             *)
(*                                                                         *)
(* Scores are held in hundredths (0.65 is 65).  The aggregate health of    *)
(* line 74 is a Python float: it is held as the exact fraction sum/len     *)
(* together with the distance, in units in the last place, between the     *)
(* float that sum(values)/len(values) yields and the float nearest to the  *)
(* exact mean.                                                             *)
(***************************************************************************)
EXTENDS Integers, Sequences, FiniteSets, TLC

\* Integration identities (keys of performance_metrics) and recorded scores.
Ids == {"A", "B", "C"}
Scores == {50, 65, 70, 90}
\* The scores telemetry writes while the model runs: a degraded and a
\* recovered integration.
TelemetryScores == {50, 90}

\* Threads that may call monitor_system on the one MasterAgent.
Callers == {1, 2}
\* The thread that runs monitor_system in the single-driver specification.
MainCaller == 1

\* Bounds of the model: sleeps a caller wakes from, telemetry writes.
MaxCycles == 1
MaxRecords == 1

\* master_agent.py:61  "if current_health < 0.8"
HealingThreshold == 80
\* master_agent.py:97  "if v < 0.7"
WeaknessThreshold == 70

NoHealth == [sum |-> 0, len |-> 0, ulps |-> 0]
NoModule == [code_for |-> ""]

VARIABLES
    performance_metrics, \* the dict of line 50, as its items in insertion order
    nrec,                \* number of external writes so far
    pc,                  \* per caller: position in monitor_system
    cycles,              \* per caller: sleeps that have ended
    current_health,      \* per caller: local of monitor_system, [sum, len]
    di_used,             \* per caller: dict size seen when the iterator was made
    di_pos,              \* per caller: items the dict iterator has yielded
    weaknesses,          \* per caller: the list built by _identify_weaknesses
    idx,                 \* per caller: position of the for loop of line 85
    new_module,          \* per caller: local of _initiate_healing_process
    err,                 \* per caller: the exception that left monitor_system
    log,                 \* events accepted by IntegrationHub.log_event
    synth_calls,         \* targets handed to llm_chain.predict, in call order
    deploy_calls,        \* calls of IntegrationHub.apply_updates, in call order
    sink_result,         \* per caller: what the deployment just called came to
    cycle_start,         \* per caller: what the current cycle started from
    stop_requested       \* an operator has asked the controller to stop

vars == << performance_metrics, nrec, pc, cycles, current_health, di_used,
           di_pos, weaknesses, idx, new_module, err, log, synth_calls,
           deploy_calls, sink_result, cycle_start, stop_requested >>

locals == << current_health, di_used, di_pos, weaknesses, idx, new_module >>

sinks == << log, synth_calls, deploy_calls, sink_result >>

----------------------------------------------------------------------------
\* Helpers over the dict, kept as a sequence of [k, v] items.

RECURSIVE SumValues(_)
SumValues(m) == IF m = << >> THEN 0 ELSE m[1].v + SumValues(Tail(m))

Keys(m) == { m[i].k : i \in 1..Len(m) }

Position(m, k) == CHOOSE i \in 1..Len(m) : m[i].k = k

Value(m, k) == m[Position(m, k)].v

\* performance_metrics[k] = v : overwrite in place, or append a new key.
SetItem(m, k, v) ==
    IF k \in Keys(m)
    THEN [m EXCEPT ![Position(m, k)] = [k |-> k, v |-> v]]
    ELSE Append(m, [k |-> k, v |-> v])

\* dict.values(), in insertion order.
Values(m) == [i \in 1..Len(m) |-> m[i].v]

\* IEEE-754 double arithmetic of sum(values) / len(values), left to right
\* from 0: the value sequences over Scores, of up to three values, whose
\* float result lies one unit in the last place (2^-53) above, or below,
\* the float nearest to the exact mean.  Every other sequence yields the
\* nearest float itself.
RoundsAbove ==
    { <<50, 70, 90>>, <<65, 65, 90>>, <<65, 90, 65>>, <<65, 90, 90>>,
      <<70, 50, 90>>, <<70, 90, 50>>, <<90, 65, 65>>, <<90, 65, 90>>,
      <<90, 70, 50>>, <<90, 90, 65>> }

RoundsBelow ==
    { <<50, 50, 65>>, <<50, 65, 50>>, <<50, 65, 70>>, <<50, 65, 90>>,
      <<50, 90, 65>>, <<50, 90, 70>>, <<50, 90, 90>>, <<65, 50, 50>>,
      <<65, 50, 70>>, <<65, 50, 90>>, <<65, 70, 70>>, <<65, 90, 50>>,
      <<70, 65, 70>>, <<70, 70, 65>>, <<70, 70, 70>>, <<70, 70, 90>>,
      <<70, 90, 70>>, <<90, 50, 65>>, <<90, 50, 70>>, <<90, 50, 90>>,
      <<90, 65, 50>>, <<90, 70, 70>>, <<90, 90, 50>> }

FloatDeviation(vs) ==
    IF vs \in RoundsAbove THEN 1 ELSE IF vs \in RoundsBelow THEN 0 - 1 ELSE 0

\* The float that line 74 computes for a non-empty dict.
FloatMean(m) ==
    [sum |-> SumValues(m), len |-> Len(m), ulps |-> FloatDeviation(Values(m))]

\* A guard that answers 0 for an empty dict instead of failing.
GetCurrentHealthZeroWhenEmpty(m) ==
    IF Len(m) = 0
    THEN [raises |-> "none", value |-> [sum |-> 0, len |-> 1, ulps |-> 0]]
    ELSE [raises |-> "none", value |-> FloatMean(m)]

\* A mean that leaves the first recorded score out of the sum.
GetCurrentHealthSkippingFirst(m) ==
    IF Len(m) = 0
    THEN [raises |-> "ZeroDivisionError", value |-> NoHealth]
    ELSE [raises |-> "none",
          value |-> [sum |-> SumValues(Tail(m)), len |-> Len(m),
                     ulps |-> FloatDeviation(Values(m))]]

\* master_agent.py:74  sum(values) / len(values): the exact fraction, or the
\* ZeroDivisionError that Python raises for an empty dict.
GetCurrentHealth(m) ==
    IF Len(m) = 0
    THEN [raises |-> "ZeroDivisionError", value |-> NoHealth]
    ELSE [raises |-> "none", value |-> FloatMean(m)]

\* A comparison that also heals at exactly the threshold.
BelowOrAtHealingThreshold(h) == h.sum <= HealingThreshold * h.len

\* master_agent.py:61  current_health < 0.8, on floats: the float nearest
\* to an exact mean of 0.8 is the float 0.8 itself.
BelowHealingThreshold(h) ==
    \/ h.sum < HealingThreshold * h.len
    \/ h.sum = HealingThreshold * h.len /\ h.ulps < 0

\* A comparison that also counts a score of exactly 0.7 as weak.
IsWeakOrAtThreshold(v) == v <= WeaknessThreshold

\* master_agent.py:97  v < 0.7
IsWeak(v) == v < WeaknessThreshold

\* master_agent.py:97 on an unchanging dict: the keys whose value is weak,
\* in the dict's (insertion) order.
RECURSIVE IdentifyWeaknesses(_)
IdentifyWeaknesses(m) ==
    IF m = << >> THEN << >>
    ELSE (IF IsWeak(m[1].v) THEN << m[1].k >> ELSE << >>)
         \o IdentifyWeaknesses(Tail(m))

Event(msg, target) == [msg |-> msg, target |-> target]

Crash(t, e) == /\ pc' = [pc EXCEPT ![t] = "crashed"]
               /\ err' = [err EXCEPT ![t] = e]

Item(k, v) == [k |-> k, v |-> v]

\* The dicts that writes performance_metrics[k] = v can build: items with
\* distinct keys, in any insertion order.
Registries ==
    UNION { { m \in [1..n -> { Item(k, v) : k \in Ids, v \in Scores }] :
                \A i, j \in 1..n : i # j => m[i].k # m[j].k } :
            n \in 0..Cardinality(Ids) }

----------------------------------------------------------------------------
\* The agent is constructed with an empty dict (line 50); by the time a
\* thread calls monitor_system, telemetry writers have stored what they had.
Init ==
    /\ performance_metrics \in Registries
    /\ nrec = 0
    /\ pc = [t \in Callers |-> "init"]
    /\ cycles = [t \in Callers |-> 0]
    /\ current_health = [t \in Callers |-> NoHealth]
    /\ di_used = [t \in Callers |-> 0]
    /\ di_pos = [t \in Callers |-> 0]
    /\ weaknesses = [t \in Callers |-> << >>]
    /\ idx = [t \in Callers |-> 0]
    /\ new_module = [t \in Callers |-> NoModule]
    /\ err = [t \in Callers |-> "none"]
    /\ log = << >>
    /\ synth_calls = << >>
    /\ deploy_calls = << >>
    /\ sink_result = [t \in Callers |-> "none"]
    /\ cycle_start = [t \in Callers |->
                        [weak |-> << >>, log |-> 0, synth |-> 0, deploy |-> 0]]
    /\ stop_requested = FALSE

\* An external telemetry writer stores a score: performance_metrics[k] = v.
Record(k, v) ==
    /\ nrec < MaxRecords
    /\ nrec' = nrec + 1
    /\ performance_metrics' = SetItem(performance_metrics, k, v)
    /\ UNCHANGED << pc, cycles, locals, err, sinks, cycle_start,
                    stop_requested >>

\* A thread calls monitor_system and reaches the top of "while True".
Start(t) ==
    /\ pc[t] = "init"
    /\ pc' = [pc EXCEPT ![t] = "health"]
    /\ UNCHANGED << performance_metrics, nrec, stop_requested, cycles, locals, err, sinks,
                    cycle_start >>

\* Line 59: current_health = self._get_current_health().  Nothing catches
\* what line 74 raises: it leaves monitor_system.
Evaluate(t) ==
    /\ pc[t] = "health"
    /\ cycle_start' = [cycle_start EXCEPT ![t] =
                         [weak |-> IdentifyWeaknesses(performance_metrics),
                          log |-> Len(log),
                          synth |-> Len(synth_calls),
                          deploy |-> Len(deploy_calls)]]
    /\ LET r == GetCurrentHealth(performance_metrics)
       IN IF r.raises # "none"
          THEN /\ Crash(t, r.raises)
               /\ UNCHANGED current_health
          ELSE /\ current_health' = [current_health EXCEPT ![t] = r.value]
               /\ pc' = [pc EXCEPT ![t] = "decide"]
               /\ UNCHANGED err
    /\ UNCHANGED << performance_metrics, nrec, stop_requested, cycles, di_used, di_pos,
                    weaknesses, idx, new_module, sinks >>

\* Line 61: below the threshold the healing process is entered, otherwise
\* the loop goes straight to the sleep of line 64.
Decide(t) ==
    /\ pc[t] = "decide"
    /\ pc' = [pc EXCEPT ![t] =
                IF BelowHealingThreshold(current_health[t])
                THEN "heal_log" ELSE "sleep"]
    /\ UNCHANGED << performance_metrics, nrec, stop_requested, cycles, locals, err, sinks,
                    cycle_start >>

\* IntegrationHub.log_event (lines 103-110) has no exception handling: the
\* call either hands the event to the log or raises to its caller.
\* LogAccepts(l, e) is the log after an accepted event.
LogAccepts(l, e) == Append(l, e)

\* Line 80: log_event("Initiating self-healing process").
HealLog(t) ==
    /\ pc[t] = "heal_log"
    /\ \/ /\ log' = LogAccepts(log, Event("Initiating self-healing process", ""))
          /\ pc' = [pc EXCEPT ![t] = "identify"]
          /\ UNCHANGED err
       \/ /\ Crash(t, "LogError")
          /\ UNCHANGED log
    /\ UNCHANGED << performance_metrics, nrec, stop_requested, cycles, locals, synth_calls,
                    deploy_calls, sink_result, cycle_start >>

\* Lines 83, 97: self.performance_metrics.items() is iterated by the list
\* comprehension; the iterator remembers the dict's size.
IdentifyBegin(t) ==
    /\ pc[t] = "identify"
    /\ di_used' = [di_used EXCEPT ![t] = Len(performance_metrics)]
    /\ di_pos' = [di_pos EXCEPT ![t] = 0]
    /\ weaknesses' = [weaknesses EXCEPT ![t] = << >>]
    /\ pc' = [pc EXCEPT ![t] = "iterate"]
    /\ UNCHANGED << performance_metrics, nrec, stop_requested, cycles, current_health, idx,
                    new_module, err, sinks, cycle_start >>

\* A comprehension without its "if v < 0.7" filter.
CollectEvery(w, item) == Append(w, item.k)

\* A comprehension that builds its list back to front.
CollectInFront(w, item) == IF IsWeak(item.v) THEN << item.k >> \o w ELSE w

\* The list after the comprehension has looked at one more item (k, v).
Collect(w, item) == IF IsWeak(item.v) THEN Append(w, item.k) ELSE w

\* Line 97, one step of the comprehension: the iterator raises RuntimeError
\* ("dictionary changed size during iteration") when the dict has grown,
\* yields the next item, or is exhausted and the for loop of line 85 starts.
IterateNext(t) ==
    /\ pc[t] = "iterate"
    /\ IF Len(performance_metrics) # di_used[t]
       THEN /\ Crash(t, "RuntimeError")
            /\ UNCHANGED << di_pos, weaknesses, idx >>
       ELSE IF di_pos[t] < Len(performance_metrics)
       THEN /\ weaknesses' = [weaknesses EXCEPT ![t] =
                                Collect(@, performance_metrics[di_pos[t] + 1])]
            /\ di_pos' = [di_pos EXCEPT ![t] = @ + 1]
            /\ UNCHANGED << pc, err, idx >>
       ELSE /\ pc' = [pc EXCEPT ![t] = "for"]
            /\ idx' = [idx EXCEPT ![t] = 1]
            /\ UNCHANGED << err, di_pos, weaknesses >>
    /\ UNCHANGED << performance_metrics, nrec, stop_requested, cycles, current_health, di_used,
                    new_module, sinks, cycle_start >>

\* A for loop that stops one element early.
ForNextSkippingLast(t) ==
    /\ pc[t] = "for"
    /\ pc' = [pc EXCEPT ![t] =
                IF idx[t] < Len(weaknesses[t]) THEN "predict" ELSE "sleep"]
    /\ sink_result' = [sink_result EXCEPT ![t] = "none"]
    /\ UNCHANGED << performance_metrics, nrec, stop_requested, cycles, locals, err, log,
                    synth_calls, deploy_calls, cycle_start >>

\* Line 85: "for weakness in weaknesses"; after the last one
\* _initiate_healing_process returns and line 64 sleeps.  Whatever the
\* deployment just called came to was never returned, and is gone.
ForNext(t) ==
    /\ pc[t] = "for"
    /\ pc' = [pc EXCEPT ![t] =
                IF idx[t] <= Len(weaknesses[t]) THEN "predict" ELSE "sleep"]
    /\ sink_result' = [sink_result EXCEPT ![t] = "none"]
    /\ UNCHANGED << performance_metrics, nrec, stop_requested, cycles, locals, err, log,
                    synth_calls, deploy_calls, cycle_start >>

\* The module the generative model returns for a target.
Generated(target) == [code_for |-> target]

\* A generate_module that swallows the failure and returns nothing, so that
\* line 87 deploys whatever it got.
PredictSwallowingFailure(t) ==
    /\ pc[t] = "predict"
    /\ synth_calls' = Append(synth_calls, weaknesses[t][idx[t]])
    /\ \/ /\ new_module' = [new_module EXCEPT ![t] =
                              Generated(weaknesses[t][idx[t]])]
          /\ pc' = [pc EXCEPT ![t] = "gen_log"]
       \/ /\ new_module' = [new_module EXCEPT ![t] = NoModule]
          /\ pc' = [pc EXCEPT ![t] = "apply"]
    /\ UNCHANGED << performance_metrics, nrec, stop_requested, cycles, current_health, di_used,
                    di_pos, weaknesses, idx, err, log, deploy_calls,
                    sink_result, cycle_start >>

\* Lines 86, 36-37: generate_module(weakness) asks llm_chain.predict, which
\* returns the generated code or raises; nothing catches the exception.
Predict(t) ==
    /\ pc[t] = "predict"
    /\ synth_calls' = Append(synth_calls, weaknesses[t][idx[t]])
    /\ \/ /\ new_module' = [new_module EXCEPT ![t] =
                              Generated(weaknesses[t][idx[t]])]
          /\ pc' = [pc EXCEPT ![t] = "gen_log"]
          /\ UNCHANGED err
       \/ /\ Crash(t, "SynthesisError")
          /\ UNCHANGED new_module
    /\ UNCHANGED << performance_metrics, nrec, stop_requested, cycles, current_health, di_used,
                    di_pos, weaknesses, idx, log, deploy_calls, sink_result,
                    cycle_start >>

\* Lines 40-42: log_event("Generated new integration module for ..."), then
\* the result is returned to line 86; when the log call raises, the result
\* is lost with the frame of generate_module.
GenLog(t) ==
    /\ pc[t] = "gen_log"
    /\ \/ /\ log' = LogAccepts(log, Event("Generated new integration module for",
                                         weaknesses[t][idx[t]]))
          /\ pc' = [pc EXCEPT ![t] = "apply"]
          /\ UNCHANGED << err, new_module >>
       \/ /\ Crash(t, "LogError")
          /\ new_module' = [new_module EXCEPT ![t] = NoModule]
          /\ UNCHANGED log
    /\ UNCHANGED << performance_metrics, nrec, stop_requested, cycles, current_health, di_used,
                    di_pos, weaknesses, idx, synth_calls, deploy_calls,
                    sink_result, cycle_start >>

\* One call of apply_updates: the code handed over and the weak identity
\* the loop of line 85 was at.
DeployCall(code, target) == [code |-> code, target |-> target]

\* An apply_updates that marks the repaired integration healthy in the
\* registry once its deployment is accepted.
ApplyUpdatesRecordingRepair(t) ==
    /\ pc[t] = "apply"
    /\ deploy_calls' = Append(deploy_calls,
                              DeployCall(new_module[t], weaknesses[t][idx[t]]))
    /\ \/ /\ log' = LogAccepts(log, Event("Applying integration module update", ""))
          /\ \E r \in {"accepted", "rejected"} :
               /\ sink_result' = [sink_result EXCEPT ![t] = r]
               /\ performance_metrics' =
                     IF r = "accepted"
                     THEN SetItem(performance_metrics, weaknesses[t][idx[t]], 90)
                     ELSE performance_metrics
          /\ idx' = [idx EXCEPT ![t] = @ + 1]
          /\ pc' = [pc EXCEPT ![t] = "for"]
          /\ UNCHANGED err
       \/ /\ Crash(t, "LogError")
          /\ UNCHANGED << performance_metrics, log, sink_result, idx >>
    /\ UNCHANGED << nrec, stop_requested, cycles, current_health, di_used,
                    di_pos, weaknesses, new_module, synth_calls, cycle_start >>

\* Lines 87, 114-122: apply_updates(new_module) logs "Applying integration
\* module update"; the deployment itself (line 122) is accepted or rejected
\* by the running system; apply_updates returns None either way and the loop
\* moves to the next weakness.
ApplyUpdates(t) ==
    /\ pc[t] = "apply"
    /\ deploy_calls' = Append(deploy_calls,
                              DeployCall(new_module[t], weaknesses[t][idx[t]]))
    /\ \/ /\ log' = LogAccepts(log, Event("Applying integration module update", ""))
          /\ \E r \in {"accepted", "rejected"} :
               sink_result' = [sink_result EXCEPT ![t] = r]
          /\ idx' = [idx EXCEPT ![t] = @ + 1]
          /\ pc' = [pc EXCEPT ![t] = "for"]
          /\ UNCHANGED err
       \/ /\ Crash(t, "LogError")
          /\ UNCHANGED << log, sink_result, idx >>
    /\ UNCHANGED << performance_metrics, nrec, stop_requested, cycles, current_health, di_used,
                    di_pos, weaknesses, new_module, synth_calls, cycle_start >>

\* Line 64: time.sleep(60) returns and the loop starts the next cycle; the
\* locals of the finished call of _initiate_healing_process are gone.
Tick(t) ==
    /\ pc[t] = "sleep"
    /\ cycles[t] < MaxCycles
    /\ cycles' = [cycles EXCEPT ![t] = @ + 1]
    /\ pc' = [pc EXCEPT ![t] = "health"]
    /\ di_used' = [di_used EXCEPT ![t] = 0]
    /\ di_pos' = [di_pos EXCEPT ![t] = 0]
    /\ weaknesses' = [weaknesses EXCEPT ![t] = << >>]
    /\ idx' = [idx EXCEPT ![t] = 0]
    /\ new_module' = [new_module EXCEPT ![t] = NoModule]
    /\ UNCHANGED << performance_metrics, nrec, stop_requested, current_health, err, sinks,
                    cycle_start >>

\* IntegrationHub.report_health (lines 125-132, and the copy in
\* integration_hub.py): a static method that reads no state and returns
\* {"status": "healthy", "timestamp": time.time()}.
ReportHealth(now) == [status |-> "healthy", timestamp |-> now]

\* One step of a thread inside monitor_system.
ControllerStep(t) ==
    \/ Start(t)
    \/ Evaluate(t)
    \/ Decide(t)
    \/ HealLog(t)
    \/ IdentifyBegin(t)
    \/ IterateNext(t)
    \/ ForNext(t)
    \/ Predict(t)
    \/ GenLog(t)
    \/ ApplyUpdates(t)
    \/ Tick(t)

Telemetry == \E k \in Ids, v \in TelemetryScores : Record(k, v)

\* One driver thread runs monitor_system; telemetry writes at any time.
Next == ControllerStep(MainCaller) \/ Telemetry

Spec == Init /\ [][Next]_vars

\* An operator raises the stop signal.  Nothing in monitor_system reads it:
\* line 58 is "while True".
RequestStop ==
    /\ ~stop_requested
    /\ stop_requested' = TRUE
    /\ UNCHANGED << performance_metrics, nrec, pc, cycles, locals, err, sinks,
                    cycle_start >>

\* Line 37: llm_chain.predict is called without a timeout and does not
\* return; the thread stays inside the call.
PredictHangs(t) ==
    /\ pc[t] = "predict"
    /\ synth_calls' = Append(synth_calls, weaknesses[t][idx[t]])
    /\ pc' = [pc EXCEPT ![t] = "predict_blocked"]
    /\ UNCHANGED << performance_metrics, nrec, stop_requested, cycles, locals,
                    err, log, deploy_calls, sink_result, cycle_start >>

\* The driver thread with an operator who may ask it to stop and a
\* generative model that may never answer.
NextAttended ==
    \/ Next
    \/ RequestStop
    \/ PredictHangs(MainCaller)

SpecAttended == Init /\ [][NextAttended]_vars

\* Several threads call monitor_system on the same agent.  Nothing in
\* lines 52-64 (no lock, no "running" flag) keeps a second caller out, so
\* each caller runs its own while-loop over the shared registry and sinks.
InitCallers == Init /\ Len(performance_metrics) <= 1

NextCallers == \E t \in Callers : ControllerStep(t)

SpecCallers == InitCallers /\ [][NextCallers]_vars

----------------------------------------------------------------------------
\* What a caller's current cycle has done so far.

CycleSynth(t) ==
    SubSeq(synth_calls, cycle_start[t].synth + 1, Len(synth_calls))

CycleDeploy(t) ==
    SubSeq(deploy_calls, cycle_start[t].deploy + 1, Len(deploy_calls))

CycleLog(t) == SubSeq(log, cycle_start[t].log + 1, Len(log))

\* The cycle is over: the caller sleeps, or an exception ended the loop.
CycleOver(t) == pc[t] \in {"sleep", "crashed"}

\* The for loop of line 85 holds the finished Weakness Set.
InBatch(t) == pc[t] \in {"for", "predict", "gen_log", "apply"}

IsPrefix(a, b) == Len(a) <= Len(b) /\ a = SubSeq(b, 1, Len(a))

----------------------------------------------------------------------------
\* C1: once a cycle in which a synthesis failed is over, synthesis has been
\* attempted for every identity of that cycle's Weakness Set (the failure
\* of one target does not abort the batch).
C1_FailureDoesNotAbortBatch ==
    \A t \in Callers :
        (CycleOver(t) /\ err[t] = "SynthesisError")
            => CycleSynth(t) = weaknesses[t]

\* C2: a cycle that finds the registry empty logs the condition, calls no
\* synthesis and goes to the sleep of the loop (Idle), from which later
\* cycles run.
C2_EmptyRegistrySkipsCycle ==
    [][\A t \in Callers :
          (pc[t] = "health" /\ performance_metrics = << >> /\ pc'[t] # pc[t])
              => /\ pc'[t] = "sleep"
                 /\ Len(log') = Len(log) + 1
                 /\ synth_calls' = synth_calls]_vars

\* A cycle whose aggregate health was at or above 0.8 and has taken its
\* decision.
HealthyCycle(t) ==
    /\ pc[t] \in {"decide", "sleep"}
    /\ \/ current_health[t].sum > HealingThreshold * current_health[t].len
       \/ /\ current_health[t].sum = HealingThreshold * current_health[t].len
          /\ current_health[t].ulps >= 0

\* C3 (as claimed): in a cycle whose aggregate health is >= 0.8 no synthesis
\* and no deployment is attempted, and once the cycle is over exactly one
\* event ("no action") has been logged for it.
C3_HealthyLogsOneNoAction ==
    \A t \in Callers :
        HealthyCycle(t)
            => /\ CycleSynth(t) = << >>
               /\ CycleDeploy(t) = << >>
               /\ (pc[t] = "sleep" => Len(CycleLog(t)) = 1)

\* C3 (amended): in a cycle whose aggregate health is >= 0.8 no synthesis
\* and no deployment is attempted, also when some integration is below
\* 0.7, and no event at all is logged for that cycle.
C3_HealthyDoesNothing ==
    \A t \in Callers :
        HealthyCycle(t)
            => /\ CycleSynth(t) = << >>
               /\ CycleDeploy(t) = << >>
               /\ CycleLog(t) = << >>

\* C3 witness: a healthy cycle is over although an integration was weak.
C3_Witness ==
    /\ HealthyCycle(MainCaller)
    /\ pc[MainCaller] = "sleep"
    /\ cycle_start[MainCaller].weak # << >>

\* Lexicographic rank of an identity.
IdRank(k) == CASE k = "A" -> 1 [] k = "B" -> 2 [] k = "C" -> 3

\* w is ordered worst score first, ties by identity, for the scores of m.
WorstFirst(w, m) ==
    \A i, j \in 1..Len(w) :
        i < j => \/ Value(m, w[i]) < Value(m, w[j])
                 \/ /\ Value(m, w[i]) = Value(m, w[j])
                    /\ IdRank(w[i]) < IdRank(w[j])

\* w is in the insertion order of the dict m.
InsertionOrder(w, m) ==
    \A i, j \in 1..Len(w) : i < j => Position(m, w[i]) < Position(m, w[j])

ExampleRegistry == << Item("A", 90), Item("B", 65), Item("C", 50) >>

\* C4 (as claimed): the Weakness Set handed to the remediation loop is
\* ordered by ascending score, ties by identity, and is attempted in that
\* order; the example registry is remediated C then B.
C4_WorstFirstOrder ==
    \A t \in Callers :
        (InBatch(t) /\ nrec = 0)
            => /\ WorstFirst(weaknesses[t], performance_metrics)
               /\ IsPrefix(CycleSynth(t), weaknesses[t])
               /\ (performance_metrics = ExampleRegistry
                       => weaknesses[t] = << "C", "B" >>)

\* C4 (amended): the Weakness Set handed to the remediation loop is in the
\* registry's insertion order, and synthesis and deployment are attempted
\* in exactly that order; the example registry is remediated B then C.
C4_InsertionOrder ==
    \A t \in Callers :
        InBatch(t)
            => /\ InsertionOrder(weaknesses[t], performance_metrics)
               /\ IsPrefix(CycleSynth(t), weaknesses[t])
               /\ IsPrefix([i \in 1..Len(CycleDeploy(t)) |->
                               CycleDeploy(t)[i].target], CycleSynth(t))
               /\ (nrec = 0 /\ performance_metrics = ExampleRegistry
                       => weaknesses[t] = << "B", "C" >>)

\* C4 witness: the example registry's batch has synthesised for B, then C.
C4_Witness ==
    /\ performance_metrics = ExampleRegistry
    /\ nrec = 0
    /\ InBatch(MainCaller)
    /\ CycleSynth(MainCaller) = << "B", "C" >>

\* C5: the Weakness Set a cycle remediates is the one of the registry
\* snapshot its aggregate health was computed from, whatever is written
\* between the two computations or during the batch.
C5_OneSnapshotPerCycle ==
    \A t \in Callers :
        InBatch(t) => weaknesses[t] = cycle_start[t].weak
Range(w) == { w[i] : i \in 1..Len(w) }

\* C6: on a registry nobody writes meanwhile, the weakness identification
\* returns, once each, exactly the identities whose score is strictly below
\* 0.7: a score of exactly 0.7 is not weak, a lower one is never left out.
C6_ExactlyTheScoresBelowThreshold ==
    \A t \in Callers :
        (pc[t] = "for" /\ nrec = 0)
            => /\ Range(weaknesses[t]) =
                    { k \in Keys(performance_metrics) :
                        Value(performance_metrics, k) < WeaknessThreshold }
               /\ Cardinality(Range(weaknesses[t])) = Len(weaknesses[t])

\* C6 witness: an identification has returned for a registry that holds a
\* score of exactly 0.7 and a lower one.
C6_Witness ==
    /\ pc[MainCaller] = "for"
    /\ nrec = 0
    /\ \E i, j \in 1..Len(performance_metrics) :
          /\ performance_metrics[i].v = WeaknessThreshold
          /\ performance_metrics[j].v < WeaknessThreshold

\* The step in which a caller evaluates the health of an empty registry.
EvaluatesEmpty(t) ==
    pc[t] = "health" /\ performance_metrics = << >> /\ pc'[t] # pc[t]

DeployTargets(d) == [i \in 1..Len(d) |-> d[i].target]

RejectedOutcome(target) ==
    Event("Remediation outcome: deployed=false", target)

\* C9: when the deployment of a synthesised module is rejected, a
\* Remediation Outcome with deployed=false is recorded for that identity
\* before the loop goes on to the next weak identity.
C9_RejectedDeploymentIsRecorded ==
    \A t \in Callers :
        (pc[t] = "for" /\ sink_result[t] = "rejected")
            => \E i \in 1..Len(CycleLog(t)) :
                  CycleLog(t)[i] =
                      RejectedOutcome(deploy_calls[Len(deploy_calls)].target)

\* C10: a failing log_event never ends the control loop, whichever of the
\* log calls it is.
C10_LogFailureNeverPropagates ==
    \A t \in Callers : ~(pc[t] = "crashed" /\ err[t] = "LogError")

\* The registry a caller's aggregate health was just computed from, when
\* nobody has written to it.
JustEvaluated(t) == pc[t] = "decide" /\ nrec = 0

\* The registries holding the same identity/score pairs as m, in every
\* insertion order.
Reorderings(m) ==
    { p \in Registries :
        /\ Len(p) = Len(m)
        /\ \A i \in 1..Len(m) : \E j \in 1..Len(p) : p[j] = m[i] }

C11_StopPreventsNewCycles ==
    [][\A t \in Callers :
          stop_requested => ~(pc[t] = "sleep" /\ pc'[t] = "health")]_vars

\* C12: a caller whose synthesis call does not return is not stuck: it has
\* a step to take (the expiry of its timeout), from which the batch goes
\* on.
C12_BlockedSynthesisIsAbandoned ==
    \A t \in Callers : pc[t] = "predict_blocked" => ENABLED ControllerStep(t)

\* A caller has completed an evaluation; current_health holds its result.
HasEvaluated(t) == current_health[t] # NoHealth

\* C13: after a completed evaluation the health report says "degraded" and
\* carries the aggregate health when that health is below the healing
\* threshold, and says "healthy" when it is at or above.
C13_ReportReflectsLastEvaluation ==
    \A t \in Callers : \A now \in {0} :
        HasEvaluated(t)
            => LET r == ReportHealth(now)
               IN IF BelowHealingThreshold(current_health[t])
                  THEN /\ r.status = "degraded"
                       /\ "aggregate_health" \in DOMAIN r
                       /\ r.aggregate_health = current_health[t]
                  ELSE r.status = "healthy"

\* A caller is inside a cycle from the evaluation of line 59 until it
\* reaches the poll-interval wait of line 64 (or its loop has died).
CycleRunning(t) == pc[t] \notin {"init", "sleep", "crashed", "predict_blocked"}

\* C14: at no time are two cycles of the same controller running, however
\* many callers have started monitor_system.
C14_NeverTwoCyclesAtOnce ==
    Cardinality({ t \in Callers : CycleRunning(t) }) <= 1

\* The cycle of caller t evaluated to a health below the healing threshold
\* and has reached the poll-interval wait with no registry write so far.
LowCycleDone(t) ==
    /\ pc[t] = "sleep"
    /\ nrec = 0
    /\ current_health[t].sum < HealingThreshold * current_health[t].len

\* No score of the registry is below the weakness threshold.
NoneBelowWeakness(m) == \A i \in 1..Len(m) : m[i].v >= WeaknessThreshold

\* C16 as stated: every cycle whose aggregate health is below the healing
\* threshold attempts at least one synthesis and one deployment.
C16_LowHealthAlwaysRemediates ==
    \A t \in Callers :
        LowCycleDone(t)
            => Len(CycleSynth(t)) >= 1 /\ Len(CycleDeploy(t)) >= 1

\* C16 as the code has it: a cycle below the healing threshold in which no
\* score is below the weakness threshold starts the healing process (it
\* logs "Initiating self-healing process") and attempts no synthesis and no
\* deployment.
C16_MildDegradationHealsNothing ==
    \A t \in Callers :
        LowCycleDone(t) /\ NoneBelowWeakness(performance_metrics)
            => /\ CycleLog(t) = << Event("Initiating self-healing process", "") >>
               /\ CycleSynth(t) = << >>
               /\ CycleDeploy(t) = << >>

C16_Witness ==
    /\ LowCycleDone(MainCaller)
    /\ Len(performance_metrics) = 3
    /\ NoneBelowWeakness(performance_metrics)
    /\ CycleLog(MainCaller) = << Event("Initiating self-healing process", "") >>

\* The exceptions that come out of a synthesis or deployment call that did
\* not return: the generative model's, or the log's inside the call.
CallFailures == {"SynthesisError", "LogError"}

\* C17: the controller cycles Idle -> Evaluating -> (Healthy | Remediating)
\* -> Idle and has no terminal state: as long as every synthesis and
\* deployment call returns, the loop of a caller never ends.
C17_NoTerminalState ==
    \A t \in Callers : pc[t] = "crashed" => err[t] \in CallFailures

\* n copies of a sequence, one after the other.
RECURSIVE Repeat(_, _)
Repeat(w, n) == IF n = 0 THEN << >> ELSE w \o Repeat(w, n - 1)

HealingStarts == SelectSeq(log, LAMBDA e : e.msg = "Initiating self-healing process")

\* Caller t sleeps after a cycle, no telemetry has been recorded since the
\* start, and every cycle so far took the same decision about the same
\* registry: below the healing threshold each one started healing and went
\* through the same weak identities, otherwise none did anything.
RepeatsItself(t) ==
    LET w == IdentifyWeaknesses(performance_metrics)
        n == IF BelowHealingThreshold(current_health[t])
             THEN cycles[t] + 1 ELSE 0
    IN /\ Len(HealingStarts) = n
       /\ synth_calls = Repeat(w, n)
       /\ DeployTargets(deploy_calls) = Repeat(w, n)

\* C18: no step of the controller writes the registry (it changes only by
\* a telemetry record), and as long as nothing is recorded every cycle that
\* reaches the poll-interval wait has taken the same decision and
\* synthesised and deployed for the same weak identities as the one before.
C18_ControllerNeverWritesRegistry ==
    [][ /\ performance_metrics' # performance_metrics => nrec' = nrec + 1
        /\ \A t \in Callers :
              (pc'[t] = "sleep" /\ nrec' = 0) => RepeatsItself(t)' ]_vars

\* C18 witness: the second cycle has remediated the same two identities as
\* the first.
C18_Witness ==
    /\ pc[MainCaller] = "sleep"
    /\ cycles[MainCaller] = 1
    /\ nrec = 0
    /\ Len(IdentifyWeaknesses(performance_metrics)) = 2
    /\ Len(synth_calls) = 4
    /\ DeployTargets(deploy_calls) = synth_calls

\* The identities of the registry whose score is below 0.7, in insertion
\* order.
BelowWeakness(m) ==
    LET f == SelectSeq(m, LAMBDA item : item.v < WeaknessThreshold)
    IN [i \in 1..Len(f) |-> f[i].k]

\* What the log holds after a remediation cycle over the identities w in
\* which every call returned: the start of healing, then for each identity
\* the synthesis and after it the deployment.
RECURSIVE RemediationLog(_)
RemediationLog(w) ==
    IF w = << >>
    THEN << Event("Initiating self-healing process", "") >>
    ELSE RemediationLog(SubSeq(w, 1, Len(w) - 1))
         \o << Event("Generated new integration module for", w[Len(w)]),
               Event("Applying integration module update", "") >>

\* C19: a remediation cycle in which no call failed, over a registry that
\* no telemetry record has written, called generate_module once for each
\* identity below 0.7 and for no other, and apply_updates once after each
\* of these calls with the module it returned; both counts are the size of
\* the Weakness Set.
C19_OneSynthesisAndDeploymentPerWeakIdentity ==
    \A t \in Callers :
        LowCycleDone(t)
            => LET w == BelowWeakness(performance_metrics)
                   n == Cardinality({ k \in Keys(performance_metrics) :
                           Value(performance_metrics, k) < WeaknessThreshold })
               IN /\ CycleSynth(t) = w
                  /\ CycleDeploy(t) =
                        [i \in 1..Len(w) |-> DeployCall(Generated(w[i]), w[i])]
                  /\ Len(CycleSynth(t)) = n
                  /\ Len(CycleDeploy(t)) = n
                  /\ CycleLog(t) = RemediationLog(w)

\* C19 witness: a cycle has synthesised and deployed for three identities.
C19_Witness ==
    /\ LowCycleDone(MainCaller)
    /\ Len(CycleSynth(MainCaller)) = 3
    /\ Len(CycleDeploy(MainCaller)) = 3
    /\ Len(CycleLog(MainCaller)) = 7

=============================================================================
